---- MODULE Spec2Model ----
\* Environment-resolution and command-execution layer of pippy
\* (src/src/pippy/helpers.py): find_venv, get_venv_python, get_executable,
\* run_cmd, run_python_cmd, run_pip_cmd, ensure_tool_installed and the
\* configuration store, with _ensure_venv of commands/core.py and the
\* develop, pkg and publish commands of commands/dev.py.
\*
\* Strings and paths are sequences of atoms; an atom is a run of characters
\* of one class (shell-safe or not), so that quoting, prefix tests and path
\* lookups are computed on the text as the code computes them.
EXTENDS Integers, Sequences, FiniteSets, TLC

\* ---------------------------------------------------------------- bounds
MaxCode == 2
MaxPartial == 3

\* ---------------------------------------------------------------- text
Tools == {"twine", "build"}
Platforms == {"posix", "win32"}

\* Atoms holding a character outside [A-Za-z0-9_@%+=:,./-] (helpers.py:103,
\* shlex.quote): they force quoting.
UnsafeAtoms == {" ", "'", "\"", "\\", "(", ")", ";", "*", ">="}

None == <<"None">>

Sep(plat) == IF plat = "win32" THEN "\\" ELSE "/"

\* Path / name
Join(p, plat, name) == p \o <<Sep(plat)>> \o name

IsPrefix(p, s) == Len(p) <= Len(s) /\ SubSeq(s, 1, Len(p)) = p

\* Roots a project's .venv can have: one made of shell-safe characters only,
\* one with a space in a directory name, and a Windows one.
PosixRoots == {<<"/", "proj", "/", ".venv">>, <<"/", "my", " ", "proj", "/", ".venv">>}
WinRoots == {<<"C:", "\\", "proj", "\\", ".venv">>}

RootsOf(plat) == IF plat = "win32" THEN WinRoots ELSE PosixRoots

\* sys.executable of the running process, and the directory of the host
\* search path.
SysExecutable(plat) ==
  IF plat = "win32" THEN <<"C:", "\\", "py", "\\", "python", ".exe">>
  ELSE <<"/", "usr", "/", "bin", "/", "python">>

HostBin(plat, command) ==
  IF plat = "win32" THEN <<"C:", "\\", "bin", "\\", command, ".exe">>
  ELSE <<"/", "usr", "/", "bin", "/", command>>

\* The script/binary directory of an environment.
ScriptDir(root, plat) ==
  IF plat = "win32" THEN Join(root, plat, <<"Scripts">>)
  ELSE Join(root, plat, <<"bin">>)

\* The interpreter of an environment (helpers.py:39-42).
VenvPython(plat, root) ==
  IF plat = "win32" THEN Join(ScriptDir(root, plat), plat, <<"python", ".exe">>)
  ELSE Join(ScriptDir(root, plat), plat, <<"python">>)

\* ---------------------------------------------------------------- state
VARIABLES
  platform,     \* sys.platform
  venv_root,    \* the path of the project's .venv
  files,        \* paths that are regular files
  dirs,         \* paths that are directories where a file is looked up
  site,         \* [interpreter path -> set of importable modules]
  locked,       \* directories the process is not permitted to search
  toolspec,     \* the ToolSpec of the command that runs
  config_file,  \* the project's pippy.json: whether it is there, and its text
  inflight,     \* the config-store invocations in progress, by process
  last,         \* the record of the last call
  prev          \* the summary of the call before it

world == <<platform, venv_root, files, dirs, site>>
store == <<config_file, inflight>>
vars == <<platform, venv_root, files, dirs, site, locked, toolspec, config_file, inflight, last, prev>>

exists(p) == p \in files \/ p \in dirs
is_file(p) == p \in files

\* Path.exists and open on a path inside a directory that the process is
\* not permitted to search: the stat fails with EACCES, which pathlib does
\* not take for an absent path, and PermissionError is raised.
Denied(p) == \E d \in locked : d # p /\ IsPrefix(d, p)

\* ---------------------------------------------------------------- helpers
\* helpers.py:37-43
get_venv_python(venv_path) ==
  LET python_exe == VenvPython(platform, venv_path)
  IN IF exists(python_exe) THEN python_exe ELSE None

\* shutil.which (helpers.py:69, 199): a bare name is searched on the host
\* search path; a name with a directory part is checked as it stands.
which(cmd) ==
  IF Len(cmd) = 1
  THEN IF is_file(HostBin(platform, cmd[1])) THEN HostBin(platform, cmd[1]) ELSE None
  ELSE IF is_file(cmd) THEN cmd ELSE None

\* f'"{python_exe}" -m {command}' (helpers.py:58, 66, 76)
ModuleString(python_exe, command) ==
  <<"\"">> \o python_exe \o <<"\"", " ", "-m", " ", command>>

\* f'"{python_exe}" -m' (helpers.py:191)
ModulePrefix(python_exe) == <<"\"">> \o python_exe \o <<"\"", " ", "-m">>

IsModuleInvocation(s) == Len(s) > 0 /\ s[1] = "\""
IsDirectPath(s) == Len(s) > 0 /\ s[1] # "\""

\* helpers.py:48-54, 60-62: the command's entry in the environment's
\* script directory, with .exe tried first on Windows.
venv_entry(venv_path, command) ==
  LET bindir == ScriptDir(venv_path, platform)
      exe1 == Join(bindir, platform, <<command, ".exe">>)
      exe2 == Join(bindir, platform, <<command>>)
  IN IF platform = "win32"
     THEN IF exists(exe1) THEN exe1
          ELSE IF exists(exe2) THEN exe2
          ELSE None
     ELSE IF exists(exe2) THEN exe2 ELSE None

\* helpers.py:56-58, 64-66: python -m command with the environment's
\* interpreter.
venv_module(venv_path, command) ==
  LET python_exe == get_venv_python(venv_path)
  IN IF python_exe # None THEN ModuleString(python_exe, command) ELSE None

host_lookup_silent(command) ==
  LET found_path == which(<<command>>)
  IN IF found_path # None
     THEN [str |-> found_path, warned |-> FALSE]
     ELSE [str |-> ModuleString(SysExecutable(platform), command), warned |-> FALSE]

\* helpers.py:68-76: the host search path, then python -m command with the
\* interpreter of the running process, with a warning.
host_lookup(command) ==
  LET found_path == which(<<command>>)
  IN IF found_path # None
     THEN [str |-> found_path, warned |-> FALSE]
     ELSE [str |-> ModuleString(SysExecutable(platform), command), warned |-> TRUE]

get_executable_module_first(venv_path, command) ==
  IF venv_path # None
  THEN IF venv_module(venv_path, command) # None
       THEN [str |-> venv_module(venv_path, command), warned |-> FALSE]
       ELSE IF venv_entry(venv_path, command) # None
       THEN [str |-> venv_entry(venv_path, command), warned |-> FALSE]
       ELSE host_lookup(command)
  ELSE host_lookup(command)

get_executable_path_first(venv_path, command) ==
  IF venv_path # None
  THEN IF venv_entry(venv_path, command) # None
       THEN [str |-> venv_entry(venv_path, command), warned |-> FALSE]
       ELSE IF which(<<command>>) # None
       THEN host_lookup(command)
       ELSE IF venv_module(venv_path, command) # None
       THEN [str |-> venv_module(venv_path, command), warned |-> FALSE]
       ELSE host_lookup(command)
  ELSE host_lookup(command)

get_executable_files_only(venv_path, command) ==
  IF venv_path # None
  THEN IF venv_entry(venv_path, command) # None /\ is_file(venv_entry(venv_path, command))
       THEN [str |-> venv_entry(venv_path, command), warned |-> FALSE]
       ELSE IF venv_module(venv_path, command) # None
       THEN [str |-> venv_module(venv_path, command), warned |-> FALSE]
       ELSE host_lookup(command)
  ELSE host_lookup(command)

\* helpers.py:45-76. The result: the string returned and whether the
\* warning of line 75 was logged.
get_executable(venv_path, command) ==
  IF venv_path # None
  THEN IF venv_entry(venv_path, command) # None
       THEN [str |-> venv_entry(venv_path, command), warned |-> FALSE]
       ELSE IF venv_module(venv_path, command) # None
       THEN [str |-> venv_module(venv_path, command), warned |-> FALSE]
       ELSE host_lookup(command)
  ELSE host_lookup(command)

\* ---------------------------------------------------------------- subprocess execution
\* shlex.quote (helpers.py:103): a string of safe characters is returned
\* as it is; any other is wrapped in single quotes, each single quote in it
\* becoming '"'"'; the empty string becomes ''.
RECURSIVE Escaped(_)
Escaped(s) ==
  IF s = <<>> THEN <<>>
  ELSE (IF Head(s) = "'" THEN <<"'", "\"", "'", "\"", "'">> ELSE <<Head(s)>>)
       \o Escaped(Tail(s))

quote_never(s) == s

quote(s) ==
  IF s = <<>> THEN <<"'", "'">>
  ELSE IF \A i \in 1..Len(s) : s[i] \notin UnsafeAtoms THEN s
  ELSE <<"'">> \o Escaped(s) \o <<"'">>

\* The -c script of the import probe (helpers.py:194, 202), abridged:
\* sys.exit(0 if find_spec('<module>') else 1)
ProbeCode(module) ==
  <<"sys.exit", "(", "find_spec", "(", "'", module, "'", ")", ")">>

Interpreters == {SysExecutable(platform), VenvPython(platform, venv_root)}

\* What the operating system does with a command (subprocess.run,
\* helpers.py:105-113). os is the part the file system does not decide:
\* whether the launch fails for another reason than a missing file
\* (os.fail), the exit code of a program whose run is not modelled (os.rc)
\* and whether it writes to its standard error (os.err).
\* A program named by a bare word is searched on the host search path; a
\* command line given to a shell always starts the shell.
Started(cmd, shell, os) ==
  LET prog == IF cmd.list THEN cmd.argv[1] ELSE cmd.argv
      found == IF Len(prog) = 1 THEN which(prog) # None ELSE is_file(prog)
  IN IF shell THEN (IF os.fail THEN "error" ELSE "ok")
     ELSE IF ~found THEN "notfound"
     ELSE IF os.fail THEN "error"
     ELSE "ok"

\* The project directory of the environment at venv_root: the working
\* directory of the subprocesses (cwd=project_dir).
ProjectDir(root) == SubSeq(root, 1, Len(root) - 2)

IsAbsolute(p) == p[1] \in {"/", "C:"}

\* The directory python -m venv makes for the argument it receives: the
\* argument as it stands, a relative one under the working directory.
CreatedRoot(arg) ==
  IF IsAbsolute(arg) THEN arg ELSE Join(ProjectDir(venv_root), platform, arg)

\* The exit code of the started child. An interpreter given -c runs the
\* text it receives: the probe script exits 0 when the module is in the
\* interpreter's site and 1 otherwise; a text that begins with a quote is
\* a string literal, an expression statement that does nothing, and the
\* interpreter exits 0. pip given a requirement that begins with a quote
\* rejects it as invalid and exits 1. python -m venv cannot make its
\* directory where a regular file stands and exits 1.
ChildExit(cmd, shell, os) ==
  IF /\ ~shell
     /\ cmd.list
     /\ Len(cmd.argv) = 3
     /\ cmd.argv[1] \in Interpreters
     /\ cmd.argv[2] = <<"-c">>
  THEN IF cmd.argv[3][1] = "'" THEN 0
       ELSE IF \E m \in site[cmd.argv[1]] : cmd.argv[3] = ProbeCode(m) THEN 0
       ELSE 1
  ELSE IF /\ ~shell
          /\ cmd.list
          /\ Len(cmd.argv) = 5
          /\ cmd.argv[1] \in Interpreters
          /\ SubSeq(cmd.argv, 2, 4) = << <<"-m">>, <<"pip">>, <<"install">> >>
          /\ cmd.argv[5][1] = "'"
  THEN 1
  ELSE IF /\ ~shell
          /\ cmd.list
          /\ Len(cmd.argv) = 4
          /\ cmd.argv[1] \in Interpreters
          /\ SubSeq(cmd.argv, 2, 3) = << <<"-m">>, <<"venv">> >>
          /\ is_file(CreatedRoot(cmd.argv[4]))
  THEN 1
  ELSE os.rc

\* helpers.py:81-136. typer.Exit is an Exception (click's Exit derives from
\* RuntimeError), so the Exit raised inside the try block at lines 100 and
\* 127 is caught by the handler of line 134, which raises Exit(1); the
\* Exit(127) of line 133 is raised in a handler and propagates.
raise_in_try(code) == [kind |-> "exit", code |-> 1]

handler_generic(exc) == [kind |-> "exit", code |-> 1]

\* helpers.py:131-136: the handlers of FileNotFoundError and of every other
\* Exception.
handler(exc) ==
  IF exc = "FileNotFoundError"
  THEN [kind |-> "exit", code |-> 127]
  ELSE [kind |-> "exit", code |-> 1]

should_raise_always(check, returncode) == returncode # 0

\* helpers.py:122
should_raise(check, returncode) == check /\ returncode # 0

\* helpers.py:124-125: the captured error output is echoed when there is
\* some.
echoes_never(stderr) == FALSE

echoes(stderr) == stderr # ""

rejected_never(cmd, shell) == FALSE

\* helpers.py:98: a list given for shell mode is refused.
rejected(cmd, shell) == shell /\ cmd.list

\* wrote: the child wrote to its standard error; shown: what it wrote has
\* reached the user, through the stream the child inherits when its output
\* is not captured (helpers.py:108) or through the echo of line 125.
run_cmd(cmd, capture, check, shell, os) ==
  LET none == [launched |-> FALSE, argv |-> <<>>, rc |-> -1,
               stdout |-> "", stderr |-> "", echoed |-> FALSE,
               wrote |-> FALSE, shown |-> FALSE]
      handed == IF ~shell /\ cmd.list
                THEN [cmd EXCEPT !.argv = [i \in 1..Len(cmd.argv) |-> quote(cmd.argv[i])]]
                ELSE cmd
      st == Started(handed, shell, os)
      rc == ChildExit(handed, shell, os)
      stdout == IF capture THEN "out" ELSE ""
      stderr == IF capture /\ os.err THEN "err" ELSE ""
      ran == [launched |-> TRUE, argv |-> handed.argv, rc |-> rc,
              stdout |-> stdout, stderr |-> stderr, echoed |-> FALSE,
              wrote |-> os.err, shown |-> os.err /\ ~capture]
  IN IF rejected(cmd, shell)
     THEN raise_in_try(1) @@ none
     ELSE IF st = "notfound" THEN handler("FileNotFoundError") @@ [none EXCEPT !.argv = handed.argv]
     ELSE IF st = "error" THEN handler("OSError") @@ [none EXCEPT !.argv = handed.argv]
     ELSE IF should_raise(check, rc)
          THEN raise_in_try(rc) @@ [ran EXCEPT !.echoed = echoes(stderr),
                                               !.shown = @ \/ echoes(stderr)]
          ELSE [kind |-> "return", code |-> rc] @@ ran

python_exe_always_host(venv_path) == [exe |-> SysExecutable(platform), warned |-> FALSE]

\* helpers.py:148-154: the interpreter of the environment given when
\* get_venv_python finds it; otherwise sys.executable, with a warning when
\* an environment was given.
python_exe_for(venv_path) ==
  LET venv_python == IF venv_path # None THEN get_venv_python(venv_path) ELSE None
  IN IF venv_path # None /\ venv_python # None
     THEN [exe |-> venv_python, warned |-> FALSE]
     ELSE [exe |-> SysExecutable(platform), warned |-> venv_path # None]

\* helpers.py:156: cmd = [python_exe] + args, the list run_cmd is given.
python_cmd(args, venv_path) == <<python_exe_for(venv_path).exe>> \o args

\* helpers.py:168: ["-m", "pip"] + args
pip_args(args) == << <<"-m">>, <<"pip">> >> \o args

\* helpers.py:139-157
run_python_cmd(args, venv_path, capture, check, os) ==
  run_cmd([list |-> TRUE, argv |-> python_cmd(args, venv_path)], capture, check, FALSE, os)

\* helpers.py:159-168
run_pip_cmd(args, venv_path, capture, check, os) ==
  run_python_cmd(pip_args(args), venv_path, capture, check, os)

\* ---------------------------------------------------------------- tool installation
\* The ToolSpecs the commands pass to ensure_tool_installed: tool_name,
\* pip_package, check_command, check_import.
ToolSpecs ==
  { [tool_name |-> "twine", pip_package |-> <<"twine">>,
     check_command |-> <<"twine">>, check_import |-> None],
    [tool_name |-> "build", pip_package |-> <<"build">>,
     check_command |-> None, check_import |-> <<"build">>],
    [tool_name |-> "pipreqs", pip_package |-> <<"pipreqs">>,
     check_command |-> None, check_import |-> None],
    [tool_name |-> "OpenAI Client", pip_package |-> <<"openai", ">=", "1.3.0">>,
     check_command |-> None, check_import |-> <<"openai">>] }

NoSpec == [tool_name |-> "none", pip_package |-> <<>>,
           check_command |-> None, check_import |-> None]

\* The name a ToolSpec's tool has in an environment: its command, its
\* module, or the distribution's name.
ToolKey(ts) ==
  IF ts.check_command # None THEN ts.check_command[1]
  ELSE IF ts.check_import # None THEN ts.check_import[1]
  ELSE ts.pip_package[1]

\* What a distribution installs: a module of its name, and for some a
\* console script (build installs pyproject-build, no script named build).
PackageModules(name) == {name}
PackageScripts(name) == IF name = "build" THEN {} ELSE {name}

\* The script path pip writes for an interpreter.
ScriptOf(interp, name) ==
  IF interp = VenvPython(platform, venv_root)
  THEN IF platform = "win32"
       THEN Join(ScriptDir(venv_root, platform), platform, <<name, ".exe">>)
       ELSE Join(ScriptDir(venv_root, platform), platform, <<name>>)
  ELSE HostBin(platform, name)

\* The import probe (helpers.py:194, 202).
probe(module, venv_path, project_dir, os) ==
  run_python_cmd(<< <<"-c">>, ProbeCode(module) >>, venv_path, FALSE, FALSE, os)

install_unchecked(pip_package, venv_path, project_dir, os) ==
  run_pip_cmd(<< <<"install">>, pip_package >>, venv_path, FALSE, FALSE, os)

\* The install step (helpers.py:212).
install(pip_package, venv_path, project_dir, os) ==
  run_pip_cmd(<< <<"install">>, pip_package >>, venv_path, FALSE, TRUE, os)

NoRun == [kind |-> "none", code |-> -1, launched |-> FALSE, argv |-> <<>>, rc |-> -1,
          stdout |-> "", stderr |-> "", echoed |-> FALSE, wrote |-> FALSE, shown |-> FALSE]

\* helpers.py:182-206: whether the tool counts as installed, with the
\* probe's run when one was made. An Exit raised by the probe is an
\* Exception and is caught (lines 196, 204): the tool counts as absent.
verify(venv_path, project_dir, check_command, check_import, os) ==
  LET python_exe == IF venv_path # None THEN get_venv_python(venv_path)
                    ELSE SysExecutable(platform)
      cmd_path == get_executable(venv_path, check_command[1]).str
      byc == probe(check_command[1], venv_path, project_dir, os)
      byi == probe(check_import[1], venv_path, project_dir, os)
  IN IF check_command # None
     THEN IF is_file(cmd_path)
          THEN [installed |-> TRUE, how |-> "file", probe |-> NoRun]
          ELSE IF IsPrefix(ModulePrefix(python_exe), cmd_path)
          THEN [installed |-> byc.kind = "return" /\ byc.code = 0, how |-> "probe", probe |-> byc]
          ELSE [installed |-> which(cmd_path) # None, how |-> "which", probe |-> NoRun]
     ELSE IF check_import # None
     THEN [installed |-> byi.kind = "return" /\ byi.code = 0, how |-> "probe", probe |-> byi]
     ELSE [installed |-> FALSE, how |-> "none", probe |-> NoRun]

needs_install_always(installed) == TRUE

needs_install_never(installed) == FALSE

\* helpers.py:209
needs_install(installed) == ~installed

\* helpers.py:173-216. The result: how the call ended (a normal return or
\* the Exit re-raised at line 216), the verification and the install run.
ensure_tool_installed(tool_name, pip_package, venv_path, project_dir, check_command, check_import, probe_os, pip_os) ==
  LET v == verify(venv_path, project_dir, check_command, check_import, probe_os)
      p == install(pip_package, venv_path, project_dir, pip_os)
  IN IF ~needs_install(v.installed)
     THEN [kind |-> "return", code |-> 0, verified |-> v, called_pip |-> FALSE, pip |-> NoRun]
     ELSE IF p.kind = "exit"
          THEN [kind |-> "exit", code |-> p.code, verified |-> v, called_pip |-> TRUE, pip |-> p]
          ELSE [kind |-> "return", code |-> 0, verified |-> v, called_pip |-> TRUE, pip |-> p]

\* ---------------------------------------------------------------- virtual environment
\* config.py:11
VENV_DIR_NAME == ".venv"

is_dir(p) == p \in dirs

\* The marker of an environment at venv_path.
Marker(venv_path) == Join(venv_path, platform, <<"pyvenv.cfg">>)

\* The value of a call that raised PermissionError.
Raised == <<"PermissionError">>

\* helpers.py:29-35. The exception of exists() is not handled.
find_venv(project_dir) ==
  LET venv_path == Join(project_dir, platform, <<VENV_DIR_NAME>>)
  IN IF ~is_dir(venv_path) THEN None
     ELSE IF Denied(Marker(venv_path)) THEN Raised
     ELSE IF exists(Marker(venv_path)) THEN venv_path
     ELSE None

\* core.py:35: python -m venv with the interpreter of the running process,
\* output not captured, check disabled.
create_venv(target_venv_path, project_dir, os) ==
  run_cmd([list |-> TRUE,
           argv |-> <<SysExecutable(platform), <<"-m">>, <<"venv">>, target_venv_path>>],
          FALSE, FALSE, FALSE, os)

may_create_always(create_if_missing) == TRUE

\* core.py:24
may_create(create_if_missing) == create_if_missing

\* core.py:36
creation_failed(rc) == rc # 0

\* core.py:17-45. An exception of find_venv (line 19) and the Exit of
\* line 27 are raised outside the try block and propagate; an Exit raised by run_cmd and the Exit of line 40 are caught
\* by the handler of line 43, which raises Exit(1). The result: how the
\* call ended, the path returned and the creation's run.
ensure_venv(project_dir, create_if_missing, os) ==
  LET venv_path == find_venv(project_dir)
      target_venv_path == Join(project_dir, platform, <<VENV_DIR_NAME>>)
      r == create_venv(target_venv_path, project_dir, os)
  IN IF venv_path = Raised
     THEN [kind |-> "raise", code |-> -1, value |-> None, run |-> NoRun]
     ELSE IF venv_path # None
     THEN [kind |-> "return", code |-> 0, value |-> venv_path, run |-> NoRun]
     ELSE IF ~may_create(create_if_missing)
     THEN [kind |-> "exit", code |-> 1, value |-> None, run |-> NoRun]
     ELSE IF r.kind = "exit"
     THEN [kind |-> "exit", code |-> 1, value |-> None, run |-> r]
     ELSE IF creation_failed(r.code)
     THEN [kind |-> "exit", code |-> 1, value |-> None, run |-> r]
     ELSE [kind |-> "return", code |-> 0, value |-> target_venv_path, run |-> r]

\* ---------------------------------------------------------------- configuration store
\* A document is a sequence of <<key, value>> pairs with distinct keys (a
\* dict keeps insertion order); a value is <<"str", s>> or <<"bool", b>>.
\* The text of the file is a sequence of JSON tokens: punctuation
\* <<"p", c>>, a string <<"s", s>>, a literal <<"l", w>>.
P(c) == <<"p", c>>

Str(x) == <<"str", x>>
Bool(b) == <<"bool", b>>

\* The keys the commands write (core.py:237, qa.py:59, qa.py:66) and one
\* the program does not know.
Keys == {"main", "use_env_key", "openai_api_key", "theme"}

Values == {Str("app.py"), Str("sk"), Bool("True"), Bool("False")}

\* config.py:8
CONFIG_FILE_NAME == "pippy.json"

\* project_dir / CONFIG_FILE_NAME (helpers.py:222, 237)
ConfigPath == Join(ProjectDir(venv_root), platform, <<CONFIG_FILE_NAME>>)

\* The file: missing, a regular file with a text, or a file that cannot be
\* opened.
MissingFile == [state |-> "missing", text |-> <<>>]
NoInvocations == <<>>

\* json.dump of a value (helpers.py:240): True and False become the
\* literals true and false, a string becomes a string token.
ValueToken(v) ==
  IF v[1] = "bool" THEN <<"l", IF v[2] = "True" THEN "true" ELSE "false">>
  ELSE <<"s", v[2]>>

\* json.load of a value token (helpers.py:226).
TokenValue(t) ==
  IF t[1] = "l" THEN Bool(IF t[2] = "true" THEN "True" ELSE "False")
  ELSE Str(t[2])

Member(kv) == << <<"s", kv[1]>>, P(":"), ValueToken(kv[2]) >>

RECURSIVE Members(_)
Members(doc) ==
  IF doc = <<>> THEN <<>>
  ELSE IF Len(doc) = 1 THEN Member(doc[1])
  ELSE Member(doc[1]) \o <<P(",")>> \o Members(Tail(doc))

\* json.dump(config_data, f, indent=2), helpers.py:240, white space left
\* out.
dump(config_data) == <<P("{")>> \o Members(config_data) \o <<P("}")>>

HasKey(doc, k) == \E i \in 1..Len(doc) : doc[i][1] = k

Get(doc, k) == doc[CHOOSE i \in 1..Len(doc) : doc[i][1] = k][2]

\* config[key] = value (helpers.py:250): the key keeps its place when the
\* document has it and is added at the end otherwise.
updated(config, key, value) ==
  IF HasKey(config, key)
  THEN [i \in 1..Len(config) |-> IF config[i][1] = key THEN <<key, value>> ELSE config[i]]
  ELSE Append(config, <<key, value>>)

\* dict: the parsed value is a dict; doc is its document (empty for any
\* other value).
Malformed == [ok |-> FALSE, dict |-> FALSE, doc |-> <<>>]

\* A text that is one JSON value other than an object: a string, one of the
\* literals, an empty array.
IsValueText(text) ==
  \/ /\ Len(text) = 1
     /\ \/ text[1][1] = "s"
        \/ text[1][1] = "l" /\ text[1][2] \in {"true", "false", "null"}
  \/ text = <<P("["), P("]")>>

\* The members of an object and its closing brace; a repeated key takes the
\* last value.
RECURSIVE LoadMembers(_, _)
LoadMembers(t, acc) ==
  IF /\ Len(t) >= 4
     /\ t[1][1] = "s"
     /\ t[2] = P(":")
     /\ \/ t[3][1] = "s"
        \/ t[3][1] = "l" /\ t[3][2] \in {"true", "false"}
  THEN IF t[4] = P("}")
       THEN IF Len(t) = 4
            THEN [ok |-> TRUE, dict |-> TRUE, doc |-> updated(acc, t[1][2], TokenValue(t[3]))]
            ELSE Malformed
       ELSE IF t[4] = P(",")
       THEN LoadMembers(SubSeq(t, 5, Len(t)), updated(acc, t[1][2], TokenValue(t[3])))
       ELSE Malformed
  ELSE Malformed

\* json.load(f), helpers.py:226: the value of a text that is one JSON
\* value, a dict for an object; any other text raises JSONDecodeError.
load(text) ==
  IF text = <<P("{"), P("}")>> THEN [ok |-> TRUE, dict |-> TRUE, doc |-> <<>>]
  ELSE IF Len(text) > 2 /\ text[1] = P("{") THEN LoadMembers(Tail(text), <<>>)
  ELSE IF IsValueText(text) THEN [ok |-> TRUE, dict |-> FALSE, doc |-> <<>>]
  ELSE Malformed

\* What the body of the try block of read_config raises (helpers.py:225-226).
ReadError(file) ==
  IF file.state = "unreadable" THEN "PermissionError"
  ELSE IF ~load(file.text).ok THEN "JSONDecodeError"
  ELSE "none"

\* helpers.py:227, 230: JSONDecodeError, then every other Exception.
handled(exc) == exc = "JSONDecodeError" \/ exc # "none"

\* helpers.py:220-233. The exists() of line 223 is outside the try block:
\* its exception propagates. The result: how the call ended, the value
\* returned (dict: it is a dict, with the document doc) and whether a
\* warning was logged.
read_config(file) ==
  IF Denied(ConfigPath)
  THEN [kind |-> "raise", dict |-> FALSE, doc |-> <<>>, warned |-> FALSE]
  ELSE IF file.state = "missing"
  THEN [kind |-> "return", dict |-> TRUE, doc |-> <<>>, warned |-> FALSE]
  ELSE IF ReadError(file) = "none"
  THEN [kind |-> "return", dict |-> load(file.text).dict, doc |-> load(file.text).doc,
        warned |-> FALSE]
  ELSE IF handled(ReadError(file))
  THEN [kind |-> "return", dict |-> TRUE, doc |-> <<>>, warned |-> TRUE]
  ELSE [kind |-> "raise", dict |-> FALSE, doc |-> <<>>, warned |-> FALSE]

opened_without_truncation(file) == [state |-> "file", text |-> file.text]

\* open(config_path, 'w'), helpers.py:239: the file is created, or cut to
\* length zero.
open_w(file) == [state |-> "file", text |-> <<>>]

\* The text of a file after new is written at its start.
Overwrite(text, new) == new \o SubSeq(text, Len(new) + 1, Len(text))

\* The write of the text by json.dump and the closing of the file
\* (helpers.py:240), from the position of a newly opened file.
write_at_start(file, text) == [file EXCEPT !.text = Overwrite(@, text)]

Min(a, b) == IF a < b THEN a ELSE b

\* The ways a write can fail: not at all, at the opening of the file, or
\* after n tokens are written.
Faults ==
  {[at |-> "none", n |-> 0], [at |-> "open", n |-> 0]}
    \cup {[at |-> "dump", n |-> n] : n \in 0..MaxPartial}

\* helpers.py:235-245. The exception of a failed write is logged and not
\* raised. The result: the file as the call leaves it and whether an error
\* was logged.
write_config(file, config_data, fault) ==
  LET text == dump(config_data)
  IN IF fault.at = "open" \/ file.state = "unreadable" \/ Denied(ConfigPath)
     THEN [file |-> file, logged |-> TRUE]
     ELSE IF fault.at = "dump"
     THEN [file |-> write_at_start(open_w(file), SubSeq(text, 1, Min(fault.n, Len(text) - 1))),
           logged |-> TRUE]
     ELSE [file |-> write_at_start(open_w(file), text), logged |-> FALSE]

\* config[key] = value (helpers.py:250) on the value read_config returned:
\* a value that is not a dict takes no item under a string key, and the
\* assignment raises TypeError.
assignable(config) == config.dict

\* helpers.py:247-251. An exception of read_config or of the assignment
\* propagates, and nothing is written. exc names the exception.
update_config_value(file, key, value, fault) ==
  IF read_config(file).kind = "raise"
  THEN [kind |-> "raise", exc |-> "PermissionError", file |-> file, logged |-> FALSE]
  ELSE IF ~assignable(read_config(file))
  THEN [kind |-> "raise", exc |-> "TypeError", file |-> file, logged |-> FALSE]
  ELSE [kind |-> "return", exc |-> "none"]
         @@ write_config(file, updated(read_config(file).doc, key, value), fault)

\* ---------------------------------------------------------------- calls
\* last is the record of the last call, kept while the file system is as
\* the call left it; prev is the summary of the call made before it.
NoCall == [op |-> "none"]

PathSnapshot == {t \in Tools : is_file(HostBin(platform, t))}

\* The entries an environment's script directory can hold for a command.
EntryPaths(venv_path, command) ==
  {Join(ScriptDir(venv_path, platform), platform, <<command>>)}
    \cup (IF platform = "win32"
          THEN {Join(ScriptDir(venv_path, platform), platform, <<command, ".exe">>)}
          ELSE {})

HasEntry(venv_path, command) ==
  venv_path # None /\ \E p \in EntryPaths(venv_path, command) : exists(p)

\* An environment's real executable files for a command.
RealExecutables(venv_path, command) ==
  IF venv_path = None THEN {} ELSE {p \in EntryPaths(venv_path, command) : is_file(p)}

HasInterp(venv_path) == venv_path # None /\ get_venv_python(venv_path) # None

Variant(str) == IF IsModuleInvocation(str) THEN "ModuleInvocation" ELSE "DirectPath"

\* The tool of a ToolSpec is present in an environment: its command is a
\* file of the script directory or its module is in the site of the
\* environment's interpreter; absent: neither, and no entry of its name.
Present(venv_path, ts) ==
  /\ venv_path # None
  /\ \/ ts.check_import = None /\ RealExecutables(venv_path, ToolKey(ts)) # {}
     \/ HasInterp(venv_path) /\ ToolKey(ts) \in site[get_venv_python(venv_path)]

Absent(venv_path, ts) ==
  /\ venv_path # None
  /\ ~HasEntry(venv_path, ToolKey(ts))
  /\ ToolKey(ts) \notin site[VenvPython(platform, venv_path)]

Summary ==
  IF last.op = "get_executable"
  THEN [op |-> last.op, tool |-> last.tool, given |-> last.venv # None,
        path |-> PathSnapshot, entry |-> HasEntry(last.venv, last.tool),
        interp |-> HasInterp(last.venv), variant |-> Variant(last.str)]
  ELSE IF last.op = "ensure_tool_installed"
  THEN [op |-> last.op, venv |-> last.venv, absent |-> last.absent,
        present |-> Present(last.venv, toolspec), interp |-> HasInterp(last.venv),
        launched |-> last.pip.launched, pip_rc |-> last.pip.rc,
        started |-> last.started]
  ELSE IF last.op = "run_cmd"
  THEN [op |-> last.op, kind |-> last.kind, code |-> last.code,
        failed_check |-> last.launched /\ last.check /\ last.rc # 0]
  ELSE IF last.op \in {"run_python_cmd", "run_pip_cmd"}
  THEN [op |-> last.op, fallback |-> last.venv # None /\ ~last.interp]
  ELSE [op |-> last.op]

Remember == IF last.op = "none" THEN prev ELSE Summary

VenvArgs == {None, venv_root}

\* A call get_executable(venv_path, command).
GetExecutable(venv_path, command) ==
  LET r == get_executable(venv_path, command)
  IN /\ last' = [op |-> "get_executable", venv |-> venv_path, tool |-> command,
                 str |-> r.str, warned |-> r.warned]
     /\ prev' = Remember
     /\ UNCHANGED <<world, toolspec, store, locked>>

\* The commands given to run_cmd: an argument list of safe words, one with
\* a glob argument, one naming a program by its path, and a command line.
Commands ==
  { [list |-> TRUE, argv |-> << <<"twine">>, <<"upload">> >>],
    [list |-> TRUE, argv |-> << <<"twine">>, <<"dist", "/", "*">>, <<"it", "'", "s">>, <<>> >>],
    [list |-> TRUE, argv |-> << HostBin(platform, "build"), <<"-h">> >>],
    [list |-> FALSE, argv |-> <<"twine", " ", "upload">>] }

OsChoices == [fail : BOOLEAN, rc : 0..MaxCode, err : BOOLEAN]

\* A call run_cmd(cmd, capture=, check=, shell=).
RunCmd(cmd, capture, check, shell, os) ==
  LET r == run_cmd(cmd, capture, check, shell, os)
  IN /\ last' = [op |-> "run_cmd", cmd |-> cmd, capture |-> capture, check |-> check,
                 shell |-> shell, child_err |-> os.err] @@ r
     /\ prev' = Remember
     /\ UNCHANGED <<world, toolspec, store, locked>>

\* A call ensure_tool_installed for the command's ToolSpec. An install
\* that exits 0 has put the distribution's module in the site of the
\* interpreter that ran pip and its script beside that interpreter.
EnsureToolInstalled(venv_path, probe_os, pip_os) ==
  \E r \in {ensure_tool_installed(toolspec.tool_name, toolspec.pip_package, venv_path,
                                  venv_root, toolspec.check_command, toolspec.check_import,
                                  probe_os, pip_os)} :
    LET done == r.called_pip /\ r.pip.launched /\ r.pip.rc = 0
        interp == r.pip.argv[1]
        name == toolspec.pip_package[1]
        scripts == {ScriptOf(interp, n) : n \in PackageScripts(name)}
    IN /\ last' = [op |-> "ensure_tool_installed", venv |-> venv_path,
                   absent |-> Absent(venv_path, toolspec),
                   started |-> /\ (r.verified.how = "probe" => r.verified.probe.launched)
                               /\ (r.called_pip => r.pip.launched),
                   pip_fail |-> r.called_pip /\ pip_os.fail] @@ r
       /\ prev' = Remember
       /\ IF done
          THEN /\ site' = [site EXCEPT ![interp] = @ \cup PackageModules(name)]
               /\ files' = files \cup {p \in scripts : p \notin dirs}
          ELSE UNCHANGED <<site, files>>
       /\ UNCHANGED <<platform, venv_root, dirs, toolspec, store, locked>>

\* ---------------------------------------------------------------- the file system around the calls
\* Entries of the environment's script directory and of the host search
\* path come and go between calls (installs, removals, a rebuilt venv).
FileCandidates(plat, root, names) ==
  {Join(ScriptDir(root, plat), plat, <<t>>) : t \in names}
    \cup (IF plat = "win32"
          THEN {Join(ScriptDir(root, plat), plat, <<t, ".exe">>) : t \in names}
          ELSE {})
    \cup {VenvPython(plat, root)}
    \cup {HostBin(plat, t) : t \in names}

\* A directory can stand where the command's file is looked up.
DirCandidates(plat, root, names) ==
  {Join(ScriptDir(root, plat), plat, <<t>>) : t \in names}

CreateFile ==
  \E p \in FileCandidates(platform, venv_root, Tools) :
    /\ ~exists(p)
    /\ files' = files \cup {p}
    /\ last' = NoCall
    /\ prev' = Remember
    /\ UNCHANGED <<platform, venv_root, dirs, site, toolspec, store, locked>>

CreateDir ==
  \E p \in DirCandidates(platform, venv_root, Tools) :
    /\ ~exists(p)
    /\ dirs' = dirs \cup {p}
    /\ last' = NoCall
    /\ prev' = Remember
    /\ UNCHANGED <<platform, venv_root, files, site, toolspec, store, locked>>

Remove ==
  \E p \in FileCandidates(platform, venv_root, Tools) :
    /\ exists(p)
    /\ files' = files \ {p}
    /\ dirs' = dirs \ {p}
    /\ last' = NoCall
    /\ prev' = Remember
    /\ UNCHANGED <<platform, venv_root, site, toolspec, store, locked>>

\* ---------------------------------------------------------------- specifications
\* Resolution: get_executable called again and again while the file system
\* changes between the calls.
InitResolve ==
  /\ platform \in Platforms
  /\ venv_root \in RootsOf(platform)
  /\ files = {SysExecutable(platform)}
  /\ dirs = {}
  /\ site = [i \in {SysExecutable(platform), VenvPython(platform, venv_root)} |-> {}]
  /\ toolspec = NoSpec
  /\ locked = {}
  /\ config_file = MissingFile
  /\ inflight = NoInvocations
  /\ last = NoCall
  /\ prev = NoCall

ResolveCall == \E v \in VenvArgs, t \in Tools : GetExecutable(v, t)

NextResolve ==
  \/ ResolveCall
  \/ CreateFile
  \/ CreateDir
  \/ Remove

SpecResolve == InitResolve /\ [][NextResolve]_vars

\* Execution: run_cmd called with every command, flag and child.
InitRun ==
  /\ platform \in Platforms
  /\ venv_root \in RootsOf(platform)
  /\ \E onpath \in SUBSET Tools :
       files = {SysExecutable(platform)} \cup {HostBin(platform, t) : t \in onpath}
  /\ dirs = {}
  /\ site = [i \in {SysExecutable(platform), VenvPython(platform, venv_root)} |-> {}]
  /\ toolspec = NoSpec
  /\ locked = {}
  /\ config_file = MissingFile
  /\ inflight = NoInvocations
  /\ last = NoCall
  /\ prev = NoCall

RunCall ==
  \E cmd \in Commands, capture \in BOOLEAN, check \in BOOLEAN, shell \in BOOLEAN,
     os \in OsChoices :
    RunCmd(cmd, capture, check, shell, os)

NextRun == RunCall

SpecRun == InitRun /\ [][NextRun]_vars

\* Installation: a command calls ensure_tool_installed for its ToolSpec,
\* again and again, on every environment.
InitEnsure ==
  /\ platform \in Platforms
  /\ venv_root \in RootsOf(platform)
  /\ toolspec \in ToolSpecs
  /\ \E f \in SUBSET FileCandidates(platform, venv_root, {ToolKey(toolspec)}),
        d \in SUBSET DirCandidates(platform, venv_root, {ToolKey(toolspec)}) :
       /\ f \cap d = {}
       /\ files = {SysExecutable(platform)} \cup f
       /\ dirs = d
  /\ site \in [{SysExecutable(platform), VenvPython(platform, venv_root)}
                 -> SUBSET {ToolKey(toolspec)}]
  /\ locked = {}
  /\ config_file = MissingFile
  /\ inflight = NoInvocations
  /\ last = NoCall
  /\ prev = NoCall

ProbeChoices == {[fail |-> f, rc |-> 0, err |-> FALSE] : f \in BOOLEAN}
\* pip writes to its standard error when it fails.
PipChoices == {[fail |-> f, rc |-> c, err |-> c # 0] : f \in BOOLEAN, c \in 0..MaxCode}

EnsureCall ==
  \E v \in VenvArgs, probe_os \in ProbeChoices, pip_os \in PipChoices :
    EnsureToolInstalled(v, probe_os, pip_os)

NextEnsure == EnsureCall

SpecEnsure == InitEnsure /\ [][NextEnsure]_vars

\* ---------------------------------------------------------------- the environment's calls
\* A call find_venv(project_dir).
FindVenv ==
  /\ last' = [op |-> "find_venv", value |-> find_venv(ProjectDir(venv_root))]
  /\ prev' = Remember
  /\ UNCHANGED <<world, toolspec, store, locked>>

\* A call _ensure_venv(project_dir, create_if_missing). A creation that
\* exits 0 has made the directory it was given, with the marker and the
\* interpreter in it.
EnsureVenv(create_if_missing, os) ==
  \E r \in {ensure_venv(ProjectDir(venv_root), create_if_missing, os)} :
    LET done == r.run.launched /\ r.run.rc = 0
        root == CreatedRoot(r.run.argv[4])
        made_dirs == IF done THEN {root} \ dirs ELSE {}
        made_files == IF done
                      THEN {Marker(root), VenvPython(platform, root)} \ (files \cup dirs)
                      ELSE {}
    IN /\ last' = [op |-> "ensure_venv", create |-> create_if_missing,
                   absent |-> find_venv(ProjectDir(venv_root)) = None,
                   os_fail |-> os.fail, made |-> made_dirs \cup made_files] @@ r
       /\ prev' = Remember
       /\ dirs' = dirs \cup made_dirs
       /\ files' = files \cup made_files
       /\ UNCHANGED <<platform, venv_root, site, toolspec, store, locked>>

\* What stands at project_dir/.venv changes between the calls: a directory
\* or a regular file of that name is made, a marker is put in the
\* directory, all of it is removed.
MakeVenv ==
  \E kind \in {"dir", "file"} :
    /\ ~exists(venv_root)
    /\ IF kind = "dir"
       THEN dirs' = dirs \cup {venv_root} /\ files' = files
       ELSE files' = files \cup {venv_root} /\ dirs' = dirs
    /\ last' = NoCall
    /\ prev' = Remember
    /\ UNCHANGED <<platform, venv_root, site, toolspec, store, locked>>

MakeMarker ==
  \E kind \in {"dir", "file"} :
    /\ is_dir(venv_root)
    /\ ~exists(Marker(venv_root))
    /\ IF kind = "dir"
       THEN dirs' = dirs \cup {Marker(venv_root)} /\ files' = files
       ELSE files' = files \cup {Marker(venv_root)} /\ dirs' = dirs
    /\ last' = NoCall
    /\ prev' = Remember
    /\ UNCHANGED <<platform, venv_root, site, toolspec, store, locked>>

RemoveVenv ==
  /\ exists(venv_root)
  /\ files' = {p \in files : ~IsPrefix(venv_root, p)}
  /\ dirs' = {p \in dirs : ~IsPrefix(venv_root, p)}
  /\ locked' = locked \ {venv_root}
  /\ last' = NoCall
  /\ prev' = Remember
  /\ UNCHANGED <<platform, venv_root, site, toolspec, store>>

\* The permission to search a directory is taken from the process, or
\* given back (chmod u-x, chmod u+x).
ChmodDir(d) ==
  /\ locked' = IF d \in locked THEN locked \ {d} ELSE locked \cup {d}
  /\ last' = NoCall
  /\ prev' = Remember
  /\ UNCHANGED <<world, toolspec, store>>

ChmodVenv == is_dir(venv_root) /\ ChmodDir(venv_root)

InitVenv ==
  /\ platform \in Platforms
  /\ venv_root \in RootsOf(platform)
  /\ files = {SysExecutable(platform)}
  /\ dirs = {}
  /\ site = [i \in {SysExecutable(platform), VenvPython(platform, venv_root)} |-> {}]
  /\ toolspec = NoSpec
  /\ locked = {}
  /\ config_file = MissingFile
  /\ inflight = NoInvocations
  /\ last = NoCall
  /\ prev = NoCall

FindVenvCall == FindVenv

EnsureVenvCall == \E create_if_missing \in BOOLEAN, os \in OsChoices : EnsureVenv(create_if_missing, os)

NextVenv ==
  \/ FindVenvCall
  \/ EnsureVenvCall
  \/ MakeVenv
  \/ MakeMarker
  \/ RemoveVenv
  \/ ChmodVenv

SpecVenv == InitVenv /\ [][NextVenv]_vars

\* The fatal paths of a failed subprocess: run_cmd with check enabled, the
\* install of a tool, the creation of the environment.
InitFatal ==
  /\ platform \in Platforms
  /\ venv_root \in RootsOf(platform)
  /\ toolspec \in ToolSpecs
  /\ files = {SysExecutable(platform)} \cup {HostBin(platform, t) : t \in Tools}
  /\ dirs = {}
  /\ site = [i \in {SysExecutable(platform), VenvPython(platform, venv_root)} |-> {}]
  /\ locked = {}
  /\ config_file = MissingFile
  /\ inflight = NoInvocations
  /\ last = NoCall
  /\ prev = NoCall

CheckedRunCall ==
  \E cmd \in Commands, capture \in BOOLEAN, os \in OsChoices :
    RunCmd(cmd, capture, TRUE, FALSE, os)

CreateVenvCall == \E os \in OsChoices : EnsureVenv(TRUE, os)

NextFatal ==
  \/ CheckedRunCall
  \/ EnsureCall
  \/ CreateVenvCall

SpecFatal == InitFatal /\ [][NextFatal]_vars

\* ---------------------------------------------------------------- the interpreter's calls
\* The arguments the commands pass: run_python_cmd(["-m", "build"])
\* (dev.py:40), run_pip_cmd(["install", "-e", "."]) (dev.py:20) and
\* run_pip_cmd(["install", pip_package]) (helpers.py:212).
PythonArgs == { << <<"-m">>, <<"build">> >> }

PipArgs == { << <<"install">>, <<"-e">>, <<".">> >>, << <<"install">>, <<"openai", ">=", "1.3.0">> >> }

\* A call run_python_cmd(args, venv_path, capture=, check=). cmd is the
\* list run_cmd was given, argv the one the launcher was handed.
RunPythonCmd(args, venv_path, capture, check, os) ==
  \E r \in {run_python_cmd(args, venv_path, capture, check, os)} :
    /\ last' = [op |-> "run_python_cmd", args |-> args, venv |-> venv_path,
                interp |-> HasInterp(venv_path), cmd |-> python_cmd(args, venv_path),
                warned |-> python_exe_for(venv_path).warned] @@ r
    /\ prev' = Remember
    /\ UNCHANGED <<world, toolspec, store, locked>>

\* A call run_pip_cmd(args, venv_path, capture=, check=).
RunPipCmd(args, venv_path, capture, check, os) ==
  \E r \in {run_pip_cmd(args, venv_path, capture, check, os)} :
    /\ last' = [op |-> "run_pip_cmd", args |-> args, venv |-> venv_path,
                interp |-> HasInterp(venv_path), cmd |-> python_cmd(pip_args(args), venv_path),
                warned |-> python_exe_for(venv_path).warned] @@ r
    /\ prev' = Remember
    /\ UNCHANGED <<world, toolspec, store, locked>>

\* The environment's interpreter is put in place, or taken away.
ChangeInterpreter ==
  /\ files' = IF VenvPython(platform, venv_root) \in files
              THEN files \ {VenvPython(platform, venv_root)}
              ELSE files \cup {VenvPython(platform, venv_root)}
  /\ last' = NoCall
  /\ prev' = Remember
  /\ UNCHANGED <<platform, venv_root, dirs, site, toolspec, store, locked>>

InitPython ==
  /\ platform \in Platforms
  /\ venv_root \in RootsOf(platform)
  /\ files \in {{SysExecutable(platform)}, {SysExecutable(platform), VenvPython(platform, venv_root)}}
  /\ dirs = {}
  /\ site = [i \in {SysExecutable(platform), VenvPython(platform, venv_root)} |-> {}]
  /\ locked = {}
  /\ toolspec = NoSpec
  /\ config_file = MissingFile
  /\ inflight = NoInvocations
  /\ last = NoCall
  /\ prev = NoCall

RunPythonCall ==
  \E args \in PythonArgs, v \in VenvArgs, capture \in BOOLEAN, check \in BOOLEAN,
     os \in OsChoices :
    RunPythonCmd(args, v, capture, check, os)

RunPipCall ==
  \E args \in PipArgs, v \in VenvArgs, capture \in BOOLEAN, check \in BOOLEAN,
     os \in OsChoices :
    RunPipCmd(args, v, capture, check, os)

NextPython ==
  \/ RunPythonCall
  \/ RunPipCall
  \/ ChangeInterpreter

SpecPython == InitPython /\ [][NextPython]_vars

\* ---------------------------------------------------------------- the configuration store's calls
\* The documents a project's pippy.json holds at first, and the updates the
\* commands make (core.py:237, qa.py:59, qa.py:66).
InitTexts == { <<<<"s", "app.py">>>>, <<P("["), P("]")>> }

InitDocs ==
  { <<>>,
    << <<"main", Str("app.py")>> >>,
    << <<"theme", Bool("False")>>, <<"main", Str("sk")>> >>,
    << <<"use_env_key", Bool("False")>>, <<"theme", Str("sk")>> >> }

Updates ==
  { <<"main", Str("app.py")>>,
    <<"use_env_key", Bool("True")>>,
    <<"openai_api_key", Str("sk")>> }

\* A call read_config(project_dir).
ReadConfig ==
  /\ last' = [op |-> "read_config", file |-> config_file] @@ read_config(config_file)
  /\ prev' = Remember
  /\ UNCHANGED <<world, toolspec, store, locked>>

\* A call update_config_value(project_dir, key, value).
UpdateConfigValue(key, value, fault) ==
  \E r \in {update_config_value(config_file, key, value, fault)} :
    /\ config_file' = r.file
    /\ last' = [op |-> "update_config_value", key |-> key, value |-> value,
                before |-> config_file, fault |-> fault, denied |-> Denied(ConfigPath),
                kind |-> r.kind, exc |-> r.exc, logged |-> r.logged]
    /\ prev' = Remember
    /\ UNCHANGED <<world, toolspec, inflight, locked>>

\* The file changes between the calls: it is cut short, its permissions
\* are taken or given back, it is deleted.
CutShort ==
  \E n \in 0..MaxPartial :
    /\ config_file.state = "file"
    /\ n < Len(config_file.text)
    /\ config_file' = [config_file EXCEPT !.text = SubSeq(@, 1, n)]
    /\ last' = NoCall
    /\ prev' = Remember
    /\ UNCHANGED <<world, toolspec, inflight, locked>>

Chmod ==
  /\ config_file.state \in {"file", "unreadable"}
  /\ config_file' = [config_file EXCEPT
                       !.state = IF @ = "file" THEN "unreadable" ELSE "file"]
  /\ last' = NoCall
  /\ prev' = Remember
  /\ UNCHANGED <<world, toolspec, inflight, locked>>

DeleteFile ==
  /\ config_file.state # "missing"
  /\ config_file' = MissingFile
  /\ last' = NoCall
  /\ prev' = Remember
  /\ UNCHANGED <<world, toolspec, inflight, locked>>

InitConfig ==
  /\ platform \in Platforms
  /\ venv_root \in RootsOf(platform)
  /\ files = {SysExecutable(platform)}
  /\ dirs = {}
  /\ site = [i \in {SysExecutable(platform), VenvPython(platform, venv_root)} |-> {}]
  /\ locked = {}
  /\ toolspec = NoSpec
  /\ \E t \in {dump(d) : d \in InitDocs} \cup InitTexts :
       config_file = [state |-> "file", text |-> t]
  /\ inflight = NoInvocations
  /\ last = NoCall
  /\ prev = NoCall

ReadCall == ReadConfig

UpdateCall == \E u \in Updates, fault \in Faults : UpdateConfigValue(u[1], u[2], fault)

ChmodProject == ChmodDir(ProjectDir(venv_root))

NextConfig ==
  \/ ReadCall
  \/ UpdateCall
  \/ CutShort
  \/ Chmod
  \/ DeleteFile
  \/ ChmodProject

SpecConfig == InitConfig /\ [][NextConfig]_vars

\* Two invocations of update_config_value and one of read_config run at
\* the same time on one project, as separate processes; each step is one
\* access to the file. last keeps the document the file held at first, the
\* order in which the writes ended and whether two writes overlapped.
Updaters == {"A", "B"}
Reader == "R"

Other(p) == IF p = "A" THEN "B" ELSE "A"

\* helpers.py:249-250: the read, and the assignment in memory.
UpdateRead(p) ==
  /\ inflight[p].pc = "start"
  /\ inflight' = [inflight EXCEPT
                    ![p].pc = "config",
                    ![p].doc = updated(read_config(config_file).doc,
                                       inflight[p].key, inflight[p].value)]
  /\ UNCHANGED <<world, toolspec, locked, config_file, last, prev>>

\* helpers.py:239: the opening of the file for writing.
UpdateOpen(p) ==
  /\ inflight[p].pc = "config"
  /\ config_file' = open_w(config_file)
  /\ inflight' = [inflight EXCEPT ![p].pc = "opened"]
  /\ last' = [last EXCEPT !.overlap = @ \/ inflight[Other(p)].pc = "opened"]
  /\ UNCHANGED <<world, toolspec, locked, prev>>

\* helpers.py:240: the dump, written when the file is closed.
UpdateDump(p) ==
  /\ inflight[p].pc = "opened"
  /\ config_file' = write_at_start(config_file, dump(inflight[p].doc))
  /\ inflight' = [inflight EXCEPT ![p].pc = "done"]
  /\ last' = [last EXCEPT !.writers = Append(@, p)]
  /\ UNCHANGED <<world, toolspec, locked, prev>>

\* helpers.py:220-233, by the process that reads.
ConcurrentRead ==
  /\ inflight[Reader].pc = "start"
  /\ inflight' = [inflight EXCEPT
                    ![Reader].pc = "done",
                    ![Reader].doc = read_config(config_file).doc,
                    ![Reader].saw = config_file.text]
  /\ UNCHANGED <<world, toolspec, locked, config_file, last, prev>>

InitRace ==
  /\ platform \in Platforms
  /\ venv_root \in RootsOf(platform)
  /\ files = {SysExecutable(platform)}
  /\ dirs = {}
  /\ site = [i \in {SysExecutable(platform), VenvPython(platform, venv_root)} |-> {}]
  /\ locked = {}
  /\ toolspec = NoSpec
  /\ \E d \in InitDocs, a \in Updates, b \in Updates :
       /\ a[1] # b[1]
       /\ config_file = [state |-> "file", text |-> dump(d)]
       /\ inflight = [p \in Updaters \cup {Reader} |->
                        [pc |-> "start",
                         key |-> IF p = "A" THEN a[1] ELSE IF p = "B" THEN b[1] ELSE "",
                         value |-> IF p = "A" THEN a[2] ELSE IF p = "B" THEN b[2] ELSE Str(""),
                         doc |-> <<>>, saw |-> <<>>]]
       /\ last = [op |-> "config_race", origin |-> d, writers |-> <<>>, overlap |-> FALSE]
  /\ prev = NoCall

UpdateReadStep == \E p \in Updaters : UpdateRead(p)
UpdateOpenStep == \E p \in Updaters : UpdateOpen(p)
UpdateDumpStep == \E p \in Updaters : UpdateDump(p)

NextRace ==
  \/ UpdateReadStep
  \/ UpdateOpenStep
  \/ UpdateDumpStep
  \/ ConcurrentRead

SpecRace == InitRace /\ [][NextRace]_vars

\* ---------------------------------------------------------------- the development commands
\* commands/dev.py: develop, pkg (build_package) and publish.
\* The names the module pippy.helpers binds (helpers.py:1-319): what it
\* imports and the functions it defines. _ensure_venv is defined in
\* commands/core.py (line 17) and is not among them.
HelpersNames ==
  { "subprocess", "sys", "os", "json", "shutil", "Path", "Optional", "Tuple", "List",
    "Dict", "Any", "shlex", "echo", "style", "colors", "Exit", "log",
    "ACTIVE_VIRTUAL_ENV", "VENV_DIR_NAME", "CONFIG_FILE_NAME", "REQ_FILE_NAME",
    "EXCLUDE_DIRS", "OPENAI_API_KEY_ENV_VAR", "get_project_dir", "find_venv",
    "get_venv_python", "get_executable", "run_cmd", "run_python_cmd", "run_pip_cmd",
    "ensure_tool_installed", "read_config", "write_config", "update_config_value",
    "find_python_files", "check_for_main_block", "prompt_yes_no", "with_help_wrapper" }

\* helpers.<name>, evaluated when the command runs: the attribute of the
\* module, or AttributeError.
helpers_attribute(name) == IF name \in HelpersNames THEN "bound" ELSE "AttributeError"

\* dev.py:16-17, 32-33, 53-54:
\*   venv_path = helpers._ensure_venv(project_dir, create_if_missing=False)
\*   if not venv_path: return
\* The result: how the statement ended and the environment obtained.
require_venv(project_dir, os) ==
  IF helpers_attribute("_ensure_venv") = "AttributeError"
  THEN [kind |-> "raise", exc |-> "AttributeError", value |-> None]
  ELSE LET e == ensure_venv(project_dir, FALSE, os)
       IN [kind |-> e.kind,
           exc |-> IF e.kind = "raise" THEN "PermissionError" ELSE "none",
           value |-> e.value]

\* dev.py:55: project_dir / "dist", and what it can hold: a distribution
\* file, a subdirectory.
DistDir(project_dir) == Join(project_dir, platform, <<"dist">>)
DistFile(project_dir) == Join(DistDir(project_dir), platform, <<"pkg-1.0.tar.gz">>)
DistSub(project_dir) == Join(DistDir(project_dir), platform, <<"old">>)

\* dev.py:56: dist_dir.is_dir() and any(dist_dir.iterdir())
has_distributions(dist_dir) ==
  is_dir(dist_dir) /\ \E p \in files \cup dirs : p # dist_dir /\ IsPrefix(dist_dir, p)

\* dev.py:86: [str(f) for f in dist_dir.glob('*') if f.is_file()]
dist_files(project_dir) ==
  IF is_file(DistFile(project_dir)) THEN <<DistFile(project_dir)>> ELSE <<>>

\* The values publish's --repository option can have (dev.py:49): none, a
\* URL, a text with a shell metacharacter.
Repositories == {None, <<"https://test.pypi.org/legacy/">>, <<"https://x", ";", "id">>}

\* s contains sub as consecutive characters (sub in s).
Contains(s, sub) ==
  /\ sub # <<>>
  /\ \E i \in 1..(Len(s) - Len(sub) + 1) : SubSeq(s, i, i + Len(sub) - 1) = sub

\* str.split(" ", maxsplit)
FirstSpace(s) ==
  IF \E i \in 1..Len(s) : s[i] = " "
  THEN CHOOSE i \in 1..Len(s) : s[i] = " " /\ \A j \in 1..(i - 1) : s[j] # " "
  ELSE 0

RECURSIVE split(_, _)
split(s, maxsplit) ==
  IF maxsplit = 0 \/ FirstSpace(s) = 0 THEN <<s>>
  ELSE <<SubSeq(s, 1, FirstSpace(s) - 1)>>
         \o split(SubSeq(s, FirstSpace(s) + 1, Len(s)), maxsplit - 1)

\* str.strip('"')
RECURSIVE strip(_)
strip(s) ==
  IF s = <<>> THEN s
  ELSE IF Head(s) = "\"" THEN strip(Tail(s))
  ELSE IF s[Len(s)] = "\"" THEN strip(SubSeq(s, 1, Len(s) - 1))
  ELSE s

\* " ".join(cmd)
RECURSIVE join(_)
join(cmd) ==
  IF cmd = <<>> THEN <<>>
  ELSE IF Len(cmd) = 1 THEN cmd[1]
  ELSE cmd[1] \o <<" ">> \o join(Tail(cmd))

\* dev.py:66-69, 89-92: [twine_cmd, "upload"], the repository option when
\* one is given, then the distributions.
upload_list(twine_cmd, repository, distributions) ==
  <<twine_cmd, <<"upload">> >>
    \o (IF repository # None THEN << <<"--repository-url">>, repository >> ELSE <<>>)
    \o distributions

\* dev.py:72: " -m " in twine_cmd
is_module_run(twine_cmd) == Contains(twine_cmd, <<" ", "-m", " ">>)

\* dev.py:73-76: the command line for the shell.
cmd_str(twine_cmd, repository, dist_dir) ==
  LET cmd == upload_list(twine_cmd, repository, <<Join(dist_dir, platform, <<"*">>)>>)
      parts == split(twine_cmd, 2)
  IN join(<<strip(parts[1])>> \o Tail(parts) \o Tail(cmd))

NoCmd == [list |-> FALSE, argv |-> <<>>]

\* dev.py:65-97, the upload step of publish: the command run_cmd is given,
\* in which mode, and its run. Without a file in dist the list branch
\* raises Exit(1) before run_cmd (lines 87-89).
upload(venv_path, project_dir, repository, os) ==
  LET twine_cmd == get_executable(venv_path, "twine").str
      line == [list |-> FALSE, argv |-> cmd_str(twine_cmd, repository, DistDir(project_dir))]
      list == [list |-> TRUE,
               argv |-> upload_list(twine_cmd, repository, dist_files(project_dir))]
  IN IF is_module_run(twine_cmd)
     THEN [stage |-> "step", shell |-> TRUE, cmd |-> line,
           run |-> run_cmd(line, FALSE, TRUE, TRUE, os)]
     ELSE IF dist_files(project_dir) = <<>>
     THEN [stage |-> "dist", shell |-> FALSE, cmd |-> NoCmd,
           run |-> [NoRun EXCEPT !.kind = "exit", !.code = 1]]
     ELSE [stage |-> "step", shell |-> FALSE, cmd |-> list,
           run |-> run_cmd(list, FALSE, TRUE, FALSE, os)]

\* The install of an ensure_tool_installed ran and exited 0.
Done(t) == t.called_pip /\ t.pip.launched /\ t.pip.rc = 0

\* What an install that exits 0 leaves: the distribution's module in the
\* site of the interpreter that ran pip, and its script beside it.
Installed(t, name) ==
  LET interp == t.pip.argv[1]
      scripts == {ScriptOf(interp, n) : n \in PackageScripts(name)}
  IN IF Done(t)
     THEN /\ site' = [site EXCEPT ![interp] = @ \cup PackageModules(name)]
          /\ files' = files \cup {p \in scripts : p \notin dirs}
     ELSE UNCHANGED <<site, files>>

\* The record of a command: the stage it ended at (the lookup of
\* helpers._ensure_venv, the environment, the dist directory, the tool, the
\* subprocess step), how it ended, and the command its step gave run_cmd.
Ended(op, present, stage, kind, exc, code) ==
  [op |-> op, present |-> present, stage |-> stage, kind |-> kind, exc |-> exc,
   code |-> code, shell |-> FALSE, cmd |-> NoCmd, repository |-> None]

\* An environment stands in the project before the command.
EnvironmentPresent == find_venv(ProjectDir(venv_root)) = venv_root

\* How a command that did not obtain an environment ends: the exception or
\* the Exit of the statement, or the return of "if not venv_path: return".
NotObtained(op, v) ==
  /\ last' = Ended(op, EnvironmentPresent,
                   IF v.exc = "AttributeError" THEN "lookup" ELSE "venv",
                   v.kind, v.exc, IF v.kind = "exit" THEN 1 ELSE 0)
  /\ prev' = Remember
  /\ UNCHANGED <<world, toolspec, store, locked>>

\* dev.py:18-24, the body of develop for the environment obtained:
\* pip install -e . with check=True.
DevelopInstall(venv_path, os) ==
  \E r \in {run_pip_cmd(<< <<"install">>, <<"-e">>, <<".">> >>, venv_path, FALSE, TRUE, os)} :
    /\ last' = [Ended("develop", EnvironmentPresent, "step", r.kind, "none", r.code)
                  EXCEPT !.cmd = [list |-> TRUE, argv |-> r.argv]]
    /\ prev' = Remember
    /\ UNCHANGED <<world, toolspec, store, locked>>

\* dev.py:35-44, the body of pkg for the environment obtained:
\* ensure_tool_installed for build, whose Exit propagates, then
\* python -m build with check=True, on the environment as the install left
\* it.
PkgBuild(venv_path, probe_os, pip_os, os) ==
  \E t \in {ensure_tool_installed("build", <<"build">>, venv_path, ProjectDir(venv_path),
                                   None, <<"build">>, probe_os, pip_os)} :
    /\ Installed(t, "build")
    /\ UNCHANGED <<platform, venv_root, dirs, toolspec, store, locked>>
    /\ prev' = Remember
    /\ IF t.kind = "exit"
       THEN last' = Ended("pkg", EnvironmentPresent, "tool", "exit", "none", t.code)
       ELSE \E r \in {IF Done(t)
                      THEN run_python_cmd(<< <<"-m">>, <<"build">> >>, venv_path, FALSE, TRUE, os)'
                      ELSE run_python_cmd(<< <<"-m">>, <<"build">> >>, venv_path, FALSE, TRUE, os)} :
              last' = [Ended("pkg", EnvironmentPresent, "step", r.kind, "none", r.code)
                         EXCEPT !.cmd = [list |-> TRUE, argv |-> r.argv]]

\* dev.py:55-100, the body of publish for the environment obtained: the
\* check of dist, ensure_tool_installed for twine, whose Exit propagates,
\* then the upload step on the environment as the install left it.
PublishUpload(venv_path, repository, probe_os, pip_os, os) ==
  IF ~has_distributions(DistDir(ProjectDir(venv_path)))
  THEN /\ last' = [Ended("publish", EnvironmentPresent, "dist", "exit", "none", 1)
                     EXCEPT !.repository = repository]
       /\ prev' = Remember
       /\ UNCHANGED <<world, toolspec, store, locked>>
  ELSE \E t \in {ensure_tool_installed("twine", <<"twine">>, venv_path, ProjectDir(venv_path),
                                        <<"twine">>, None, probe_os, pip_os)} :
         /\ Installed(t, "twine")
         /\ UNCHANGED <<platform, venv_root, dirs, toolspec, store, locked>>
         /\ prev' = Remember
         /\ IF t.kind = "exit"
            THEN last' = [Ended("publish", EnvironmentPresent, "tool", "exit", "none", t.code)
                            EXCEPT !.repository = repository]
            ELSE \E u \in {IF Done(t)
                           THEN upload(venv_path, ProjectDir(venv_path), repository, os)'
                           ELSE upload(venv_path, ProjectDir(venv_path), repository, os)} :
                   last' = [Ended("publish", EnvironmentPresent, u.stage, u.run.kind, "none",
                                  u.run.code)
                              EXCEPT !.repository = repository, !.shell = u.shell,
                                     !.cmd = u.cmd]

\* dev.py:10-24. get_project_dir returns the directory given, which typer
\* has checked to exist (exists=True), or the working directory.
Develop(os) ==
  \E v \in {require_venv(ProjectDir(venv_root), os)} :
    IF v.kind = "return" /\ v.value # None
    THEN DevelopInstall(v.value, os)
    ELSE NotObtained("develop", v)

\* dev.py:26-44
BuildPackage(probe_os, pip_os, os) ==
  \E v \in {require_venv(ProjectDir(venv_root), os)} :
    IF v.kind = "return" /\ v.value # None
    THEN PkgBuild(v.value, probe_os, pip_os, os)
    ELSE NotObtained("pkg", v)

\* dev.py:46-100
Publish(repository, probe_os, pip_os, os) ==
  \E v \in {require_venv(ProjectDir(venv_root), os)} :
    IF v.kind = "return" /\ v.value # None
    THEN PublishUpload(v.value, repository, probe_os, pip_os, os)
    ELSE NotObtained("publish", v)

\* What the operating system does with a command's subprocess: it runs and
\* exits 0, it runs, writes to its standard error and exits 1, or it cannot
\* be started.
StepChoices ==
  { [fail |-> FALSE, rc |-> 0, err |-> FALSE],
    [fail |-> FALSE, rc |-> 1, err |-> TRUE],
    [fail |-> TRUE, rc |-> 0, err |-> FALSE] }

\* The three commands, run again and again on a project whose .venv is
\* made, marked, removed and locked between the runs.
InitCommands ==
  /\ platform \in Platforms
  /\ venv_root \in RootsOf(platform)
  /\ \E f \in SUBSET {VenvPython(platform, venv_root), DistFile(ProjectDir(venv_root))} :
       files = {SysExecutable(platform)} \cup f
  /\ dirs \in {{}, {DistDir(ProjectDir(venv_root))}}
  /\ site = [i \in {SysExecutable(platform), VenvPython(platform, venv_root)} |-> {}]
  /\ toolspec = NoSpec
  /\ locked = {}
  /\ config_file = MissingFile
  /\ inflight = NoInvocations
  /\ last = NoCall
  /\ prev = NoCall

DevelopCall == \E os \in StepChoices : Develop(os)

PkgCall == \E probe_os \in ProbeChoices, pip_os \in StepChoices, os \in StepChoices : BuildPackage(probe_os, pip_os, os)

PublishCall == \E repository \in Repositories, probe_os \in ProbeChoices, pip_os \in StepChoices, os \in StepChoices : Publish(repository, probe_os, pip_os, os)

NextCommands ==
  \/ DevelopCall
  \/ PkgCall
  \/ PublishCall
  \/ MakeVenv
  \/ MakeMarker
  \/ RemoveVenv
  \/ ChmodVenv

SpecCommands == InitCommands /\ [][NextCommands]_vars

\* The bodies of the three commands from the statement after the
\* environment is obtained (dev.py:18, 35, 55), on a project whose
\* environment stands: with or without its interpreter, a twine script and
\* a twine on the host search path, and with dist missing, empty, holding a
\* subdirectory or holding a distribution.
InitBodies ==
  /\ platform \in Platforms
  /\ venv_root \in RootsOf(platform)
  /\ \E f \in SUBSET {VenvPython(platform, venv_root), HostBin(platform, "twine"),
                      ScriptOf(VenvPython(platform, venv_root), "twine"),
                      DistFile(ProjectDir(venv_root))},
        d \in SUBSET {DistDir(ProjectDir(venv_root)), DistSub(ProjectDir(venv_root))} :
       /\ DistFile(ProjectDir(venv_root)) \in f => DistDir(ProjectDir(venv_root)) \in d
       /\ DistSub(ProjectDir(venv_root)) \in d => DistDir(ProjectDir(venv_root)) \in d
       /\ files = {SysExecutable(platform), Marker(venv_root)} \cup f
       /\ dirs = {venv_root} \cup d
  /\ site = [i \in {SysExecutable(platform), VenvPython(platform, venv_root)} |-> {}]
  /\ toolspec = NoSpec
  /\ locked = {}
  /\ config_file = MissingFile
  /\ inflight = NoInvocations
  /\ last = NoCall
  /\ prev = NoCall

DevelopBody == \E os \in StepChoices : DevelopInstall(venv_root, os)

PkgBody == \E probe_os \in ProbeChoices, pip_os \in StepChoices, os \in StepChoices : PkgBuild(venv_root, probe_os, pip_os, os)

PublishBody == \E repository \in Repositories, probe_os \in ProbeChoices, pip_os \in StepChoices, os \in StepChoices : PublishUpload(venv_root, repository, probe_os, pip_os, os)

NextBodies ==
  \/ DevelopBody
  \/ PkgBody
  \/ PublishBody

SpecBodies == InitBodies /\ [][NextBodies]_vars

\* ---------------------------------------------------------------- properties
IsEnsure == last.op = "ensure_tool_installed"
IsResolve == last.op = "get_executable"
IsRun == last.op = "run_cmd"

HasStrategy == toolspec.check_command # None \/ toolspec.check_import # None

\* The verification of the last ensure call succeeded: the resolved
\* executable is a real file, or the import probe ran and exited 0.
VerifiedPresent ==
  \/ last.verified.how = "file"
  \/ /\ last.verified.how = "probe"
     /\ last.verified.probe.launched
     /\ last.verified.probe.rc = 0

\* C1: an ensure_tool_installed call with a verification strategy whose
\* verification succeeds calls no package installer, launches no install
\* subprocess and returns normally.
C1_VerifiedNoInstall ==
  (IsEnsure /\ HasStrategy /\ VerifiedPresent)
    => (~last.called_pip /\ ~last.pip.launched /\ last.kind = "return")

C1_Witness ==
  /\ IsEnsure
  /\ toolspec.check_import # None
  /\ last.verified.how = "probe"
  /\ last.verified.probe.launched
  /\ last.verified.probe.rc = 0
  /\ ~last.called_pip
  /\ last.kind = "return"

\* C2: of two successive ensure calls for the same tool, with a
\* verification strategy, on an environment that has its interpreter and
\* where the tool is absent at first, every subprocess starts and an
\* install that runs exits 0 and makes the tool present, the first launches
\* the install subprocess and the second launches none.
C2_InstalledExactlyOnce ==
  ( /\ IsEnsure
    /\ prev.op = "ensure_tool_installed"
    /\ HasStrategy
    /\ last.venv # None
    /\ prev.venv = last.venv
    /\ prev.interp
    /\ prev.absent
    /\ prev.started
    /\ last.started
    /\ (prev.launched => (prev.pip_rc = 0 /\ prev.present)) )
    => (prev.launched /\ ~last.pip.launched)

\* C3: when the verification fails and the install subprocess exits with a
\* non-zero code, ensure_tool_installed does not return: it raises an exit
\* of code 1.
C3_FailedInstallIsFatal ==
  (IsEnsure /\ ~last.verified.installed /\ last.pip.launched /\ last.pip.rc # 0)
    => (last.kind = "exit" /\ last.code = 1)

C3_Witness ==
  /\ IsEnsure
  /\ last.verified.how = "which"
  /\ ~last.verified.installed
  /\ last.pip.launched
  /\ last.pip.rc = MaxCode
  /\ last.kind = "exit"
  /\ last.code = 1

C5_NoEntryGivesVenvModule ==
  (IsResolve /\ last.venv # None /\ ~HasEntry(last.venv, last.tool) /\ HasInterp(last.venv))
    => last.str = ModuleString(VenvPython(platform, last.venv), last.tool)

C5_Witness ==
  /\ IsResolve
  /\ last.venv # None
  /\ ~HasEntry(last.venv, last.tool)
  /\ HasInterp(last.venv)
  /\ last.tool \in PathSnapshot
  /\ last.str = ModuleString(VenvPython(platform, last.venv), last.tool)

\* The last get_executable call returned the path found on the host
\* search path.
ReturnedHostPath == IsResolve /\ last.str = HostBin(platform, last.tool)

\* C6 as stated: get_executable returns a path found on the host search
\* path only when no environment was given.
C6_HostPathOnlyWithoutVenv == ReturnedHostPath => last.venv = None

\* C6 as amended: get_executable returns a path found on the host search
\* path only when no environment was given, or when the environment given
\* has neither an entry for the tool in its script directory nor an
\* interpreter.
C6_HostPathOnlyAsFallback ==
  ReturnedHostPath
    => (last.venv = None \/ (~HasEntry(last.venv, last.tool) /\ ~HasInterp(last.venv)))

C6_Witness ==
  /\ ReturnedHostPath
  /\ last.venv # None
  /\ ~HasEntry(last.venv, last.tool)
  /\ ~HasInterp(last.venv)

\* C7: with no environment and the tool not on the host search path,
\* get_executable returns the module invocation of the running process's
\* interpreter and the tool, and has logged a warning.
C7_LastResortWarns ==
  (IsResolve /\ last.venv = None /\ last.tool \notin PathSnapshot)
    => (last.str = ModuleString(SysExecutable(platform), last.tool) /\ last.warned)

C7_Witness ==
  /\ IsResolve
  /\ last.venv = None
  /\ last.tool \notin PathSnapshot
  /\ last.str = ModuleString(SysExecutable(platform), last.tool)
  /\ last.warned

\* Two get_executable calls, the last and the one before, agree on the
\* tool name, on whether an environment is given and on the host search
\* path.
SameResolveInputs ==
  /\ IsResolve
  /\ prev.op = "get_executable"
  /\ prev.tool = last.tool
  /\ prev.given = (last.venv # None)
  /\ prev.path = PathSnapshot

\* C8 as stated: two get_executable calls that agree on the tool name, on
\* whether an environment is given and on the host search path return the
\* same variant.
C8_VariantFromNameVenvPath == SameResolveInputs => prev.variant = Variant(last.str)

\* C8 as amended: two get_executable calls that agree on the tool name, on
\* whether an environment is given, on the host search path and, for a given
\* environment, on whether its script directory has an entry for the tool
\* and on whether its interpreter exists, return the same variant.
C8_VariantFromEnvironmentState ==
  ( /\ SameResolveInputs
    /\ prev.entry = HasEntry(last.venv, last.tool)
    /\ prev.interp = HasInterp(last.venv) )
    => prev.variant = Variant(last.str)

C8_Witness ==
  /\ SameResolveInputs
  /\ prev.entry = HasEntry(last.venv, last.tool)
  /\ prev.interp = HasInterp(last.venv)
  /\ last.venv # None
  /\ prev.entry
  /\ RealExecutables(last.venv, last.tool) = {}
  /\ prev.variant = "DirectPath"
  /\ Variant(last.str) = "DirectPath"

\* C9: run_cmd with check enabled, on a child that exits with a non-zero
\* code c, raises a failure that carries the code c.
C9_CheckedFailureCarriesCode ==
  (IsRun /\ last.check /\ last.launched /\ last.rc # 0)
    => (last.kind = "exit" /\ last.code = last.rc)

\* C10: run_cmd with check disabled returns the triple for every exit code
\* of a child that started and exited, and the exit code returned is the
\* child's.
C10_UncheckedReturnsTriple ==
  (IsRun /\ ~last.check /\ last.launched)
    => /\ last.kind = "return"
       /\ last.code = last.rc
       /\ last.stdout = (IF last.capture THEN "out" ELSE "")
       /\ last.stderr = (IF last.capture /\ last.child_err THEN "err" ELSE "")

C10_Witness ==
  /\ IsRun
  /\ ~last.check
  /\ last.launched
  /\ last.rc = MaxCode
  /\ last.kind = "return"
  /\ last.code = MaxCode

IsFindVenv == last.op = "find_venv"
IsEnsureVenv == last.op = "ensure_venv"
IsReadConfig == last.op = "read_config"
IsUpdate == last.op = "update_config_value"

\* C11: when a call is fatal because its subprocess exited with a non-zero
\* code (run_cmd with check enabled, the install of a tool, the creation of
\* the environment) and the subprocess wrote to its standard error, what it
\* wrote has reached the user when the call raises.
C11_ErrorOutputShownBeforeFatal ==
  /\ (IsRun /\ last.check /\ last.kind = "exit" /\ last.launched /\ last.rc # 0 /\ last.wrote)
       => last.shown
  /\ (IsEnsure /\ last.kind = "exit" /\ last.pip.launched /\ last.pip.rc # 0 /\ last.pip.wrote)
       => last.pip.shown
  /\ (IsEnsureVenv /\ last.kind = "exit" /\ last.run.launched /\ last.run.rc # 0
        /\ last.run.wrote)
       => last.run.shown

C11_Witness ==
  /\ IsRun
  /\ last.check
  /\ last.capture
  /\ last.kind = "exit"
  /\ last.launched
  /\ last.rc # 0
  /\ last.wrote
  /\ last.echoed
  /\ last.shown

\* The program of the last run_cmd call as it is handed to the launcher,
\* and whether the launcher finds it.
HandedProgram == IF last.cmd.list THEN quote(last.cmd.argv[1]) ELSE last.cmd.argv

LauncherFindsNone ==
  /\ IsRun
  /\ ~last.shell
  /\ IF Len(HandedProgram) = 1
     THEN ~is_file(HostBin(platform, HandedProgram[1]))
     ELSE ~is_file(HandedProgram)

\* C12: when the launcher cannot find the program, run_cmd returns no
\* triple and raises an exit of code 127, with check enabled and with check
\* disabled.
C12_NotFoundIs127 ==
  LauncherFindsNone => (last.kind = "exit" /\ last.code = 127 /\ ~last.launched)

C12_Witness ==
  /\ LauncherFindsNone
  /\ ~last.check
  /\ last.kind = "exit"
  /\ last.code = 127

\* The child of the last run_cmd call failed to start.
CouldNotStart == IsRun /\ ~last.launched /\ ~(last.shell /\ last.cmd.list)

\* C13: when the child fails to start, run_cmd returns no triple, and the
\* condition it raises differs from the condition an earlier call raised
\* for a non-zero exit with check enabled.
C13_CouldNotStartIsDistinct ==
  /\ CouldNotStart => last.kind = "exit"
  /\ (CouldNotStart /\ prev.op = "run_cmd" /\ prev.failed_check)
       => <<prev.kind, prev.code>> # <<last.kind, last.code>>

\* project_dir/.venv is a directory that holds an entry named pyvenv.cfg.
Marked == is_dir(venv_root) /\ exists(Marker(venv_root))

\* C14: find_venv raises nothing; it returns project_dir/.venv when that is
\* a directory that holds the marker, and returns None in every other
\* case: no .venv, a regular file of that name, a directory without the
\* marker.
C14_FoundIffMarked ==
  IsFindVenv => /\ last.value # Raised
                /\ (Marked => last.value = venv_root)
                /\ (~Marked => last.value = None)

\* C15: _ensure_venv with create_if_missing false, on a project where
\* find_venv returns None, raises an exit of code 1, launches no subprocess
\* and makes nothing on disk.
C15_NoCreationIsFatal ==
  (IsEnsureVenv /\ ~last.create /\ last.absent)
    => /\ last.kind = "exit"
       /\ last.code = 1
       /\ last.run = NoRun
       /\ last.made = {}

C15_Witness ==
  /\ IsEnsureVenv
  /\ ~last.create
  /\ last.absent
  /\ is_dir(venv_root)
  /\ last.kind = "exit"
  /\ last.code = 1
  /\ last.run = NoRun

\* C16: _ensure_venv with create_if_missing true, on a project where
\* find_venv returns None and where the operating system starts the
\* programs that exist, launches the creation subprocess; it returns when
\* the subprocess exits 0, and what it returns is then the environment of
\* the project; when the subprocess exits with another code it raises an
\* exit of code 1.
C16_CreationReturnsEnvironment ==
  (IsEnsureVenv /\ last.create /\ last.absent /\ ~last.os_fail)
    => /\ last.run.launched
       /\ (last.kind = "return") = (last.run.rc = 0)
       /\ (last.kind = "return"
             => (last.value # None /\ find_venv(ProjectDir(venv_root)) = last.value))
       /\ (last.run.rc # 0 => (last.kind = "exit" /\ last.code = 1))

\* The text is one JSON object: braces around members of a string, a
\* colon and a value, with commas between them.
IsObjectText(text) ==
  /\ Len(text) >= 2
  /\ text[1] = P("{")
  /\ text[Len(text)] = P("}")
  /\ Len(text) = 2 \/ Len(text) % 4 = 1
  /\ \A i \in 2..(Len(text) - 1) :
       IF i % 4 = 2 THEN text[i][1] = "s"
       ELSE IF i % 4 = 3 THEN text[i] = P(":")
       ELSE IF i % 4 = 0 THEN text[i][1] \in {"s", "l"}
       ELSE text[i] = P(",")

\* C17: read_config raises nothing; it returns the empty document for a
\* missing file, for a file that cannot be opened and for a text that is
\* not a JSON object, and for the text of a document it returns that
\* document.
C17_ReadNeverRaises ==
  IsReadConfig
    => /\ last.kind = "return"
       /\ (last.file.state # "file" \/ ~IsObjectText(last.file.text)) => last.doc = <<>>
       /\ (last.file.state # "file" \/ ~IsValueText(last.file.text)) => last.dict
       /\ (last.file.state = "file" /\ IsObjectText(last.file.text))
            => dump(last.doc) = last.file.text

\* The file held a document before the last update, and that document.
HeldDocument == last.before.state = "file" /\ load(last.before.text).ok /\ load(last.before.text).dict

DocumentBefore == load(last.before.text).doc

\* A read_config made now returns the document of before the last update
\* with the key mapped to the value: the key has the value, with its type,
\* every other key has the value it had, and there is no other key.
ReadsBack ==
  LET now == read_config(config_file)
  IN /\ now.kind = "return"
     /\ HasKey(now.doc, last.key)
     /\ Get(now.doc, last.key) = last.value
     /\ \A k \in Keys \ {last.key} :
          /\ HasKey(now.doc, k) = HasKey(DocumentBefore, k)
          /\ HasKey(DocumentBefore, k) => Get(now.doc, k) = Get(DocumentBefore, k)
     /\ Len(now.doc) = Len(DocumentBefore) + (IF HasKey(DocumentBefore, last.key) THEN 0 ELSE 1)

\* C18: after update_config_value(dir, k, v) has returned, on a file that
\* held a document D, read_config returns D with k mapped to v: every other
\* key keeps its value and type, and k has the value v with its type.
C18_UpdateReadsBack == (IsUpdate /\ last.kind = "return" /\ HeldDocument) => ReadsBack

IsRace == last.op = "config_race"

BothDone == IsRace /\ \A p \in Updaters : inflight[p].pc = "done"

LastWriter == last.writers[Len(last.writers)]

\* C19: when two update_config_value invocations with distinct keys have
\* both ended, their steps interleaved in any order with no write begun
\* inside the other's, the file is the document of the invocation that
\* wrote last.
C19_LastWriterWins ==
  (BothDone /\ ~last.overlap)
    => /\ config_file.state = "file"
       /\ config_file.text = dump(inflight[LastWriter].doc)
       /\ read_config(config_file).doc = inflight[LastWriter].doc

\* There is such an interleaving after which the key of the invocation that
\* wrote first is not in the file.
C19_Witness ==
  /\ BothDone
  /\ ~last.overlap
  /\ ~HasKey(read_config(config_file).doc, inflight[Other(LastWriter)].key)
  /\ HasKey(read_config(config_file).doc, inflight[LastWriter].key)

\* C20: a read_config that runs while a single update_config_value runs
\* sees the whole text of the document of before the update or the whole
\* text of the document of after it.
C20_SaveIsAtomic ==
  (IsRace /\ inflight[Reader].pc = "done" /\ inflight["B"].pc = "start")
    => inflight[Reader].saw \in
         {dump(last.origin), dump(updated(last.origin, inflight["A"].key, inflight["A"].value))}

\* C21: update_config_value returns without raising whatever the file was
\* before the call (missing, malformed, not permitted, any JSON value) and
\* whether or not the write fails; a write that fails is logged.
C21_UpdateNeverAborts ==
  IsUpdate
    => /\ last.kind = "return"
       /\ last.fault.at # "none" => last.logged

\* C25: run_cmd given a list together with shell=True starts no process
\* and ends in a fatal exit with code 1.
C25_ShellListIsRefused ==
  (IsRun /\ last.shell /\ last.cmd.list)
    => /\ ~last.launched
       /\ last.argv = <<>>
       /\ last.kind = "exit"
       /\ last.code = 1

C25_Witness ==
  /\ IsRun /\ last.shell /\ last.cmd.list
  /\ is_file(HostBin(platform, "twine"))
  /\ last.kind = "exit" /\ last.code = 1 /\ ~last.launched

\* An argument made of shell-safe characters only.
IsSafe(arg) == arg # <<>> /\ \A i \in 1..Len(arg) : arg[i] \notin UnsafeAtoms

\* The word a POSIX shell reads from a text: text between single quotes and
\* between double quotes stands for itself, and so does a safe character
\* outside quotes; any other character outside quotes is active (it splits
\* the word, is expanded, or begins another command), and ok is FALSE.
RECURSIVE ShellWord(_, _)
ShellWord(q, mode) ==
  IF q = <<>> THEN [ok |-> mode = "bare", word |-> <<>>]
  ELSE LET c == Head(q)
           literal(m) == LET r == ShellWord(Tail(q), m)
                         IN [ok |-> r.ok, word |-> <<c>> \o r.word]
       IN IF mode = "single"
          THEN IF c = "'" THEN ShellWord(Tail(q), "bare") ELSE literal("single")
          ELSE IF mode = "double"
          THEN IF c = "\"" THEN ShellWord(Tail(q), "bare") ELSE literal("double")
          ELSE IF c = "'" THEN ShellWord(Tail(q), "single")
          ELSE IF c = "\"" THEN ShellWord(Tail(q), "double")
          ELSE IF c \in UnsafeAtoms THEN [ok |-> FALSE, word |-> <<>>]
          ELSE literal("bare")

\* C26: in non-shell mode the launcher receives as many arguments as run_cmd
\* was given, in the same order, each one the shell-quoted form of the
\* argument given (the text a shell reads back as that argument, as one
\* word); an argument of shell-safe characters only is handed unchanged.
C26_ArgumentsQuotedInOrder ==
  (IsRun /\ ~last.shell /\ last.cmd.list)
    => /\ Len(last.argv) = Len(last.cmd.argv)
       /\ \A i \in 1..Len(last.cmd.argv) :
            /\ ShellWord(last.argv[i], "bare") = [ok |-> TRUE, word |-> last.cmd.argv[i]]
            /\ IsSafe(last.cmd.argv[i]) => last.argv[i] = last.cmd.argv[i]

C26_Witness ==
  /\ IsRun /\ ~last.shell /\ last.cmd.list /\ last.launched
  /\ \E i \in 1..Len(last.cmd.argv) : IsSafe(last.cmd.argv[i])
  /\ \E i \in 1..Len(last.cmd.argv) : "'" \in {last.cmd.argv[i][k] : k \in 1..Len(last.cmd.argv[i])}
  /\ \E i \in 1..Len(last.cmd.argv) : last.cmd.argv[i] = <<>> /\ last.argv[i] = <<"'", "'">>

\* The launcher can start the program the install was handed: it finds the
\* file its first argument names, and the launch does not fail otherwise.
InstallCanStart == is_file(last.pip.argv[1]) /\ ~last.pip_fail

IsPython == last.op = "run_python_cmd"
IsPip == last.op = "run_pip_cmd"

\* The list run_cmd is given begins with the interpreter exe and goes on
\* with the arguments given (after -m pip for run_pip_cmd).
RunsUnder(exe) ==
  /\ IsPython => last.cmd = <<exe>> \o last.args
  /\ IsPip => last.cmd = <<exe, <<"-m">>, <<"pip">> >> \o last.args

IsCommand == last.op \in {"develop", "pkg", "publish"}

C27_CommandsReachTheirStep ==
  (IsCommand /\ last.present)
    => /\ last.kind # "raise"
       /\ last.stage \notin {"lookup", "venv"}
       /\ last.op = "develop" => last.stage = "step"
       /\ last.op = "pkg" => last.stage \in {"tool", "step"}


====
